---- MODULE Spec2Model ----
(***************************************************************************)
(* Model of src/src/main.rs: the person repository (create_person,         *)
(* get_person, search_person, count) over the `person` table, its error    *)
(* mapping, and the HTTP handlers that render results and errors.          *)
(*                                                                         *)
(* Strings are sequences of one-character strings, so that LIKE and        *)
(* substring containment are computed character by character.              *)
(* Option<T> is a sequence of length at most one: None is <<>>, Some(v)    *)
(* is <<v>>.                                                               *)
(*                                                                         *)
(* A store statement is atomic: it either takes effect and returns its     *)
(* result, or fails with an error and leaves the table as it was.          *)
(***************************************************************************)
EXTENDS Integers, Sequences, FiniteSets, TLC

VARIABLES
    rows,      \* the person table, in insertion order
    seq,       \* the last value of the id sequence
    call,      \* per client: the repository call waiting for the store
    created,   \* the Persons that create_person returned, in order
    response   \* the response the step just taken produced, with its request

vars == <<rows, seq, call, created, response>>

(***************************************************************************)
(* Bounds of the model.                                                    *)
(***************************************************************************)
\* Spec: the id sequence is advanced at most MaxSeq times.
MaxSeq == 3
\* SpecCap: the table holds at most MaxPopulation rows.
MaxPopulation == 51

Clients == {"c1", "c2"}

None == <<>>
Some(v) == <<v>>

(***************************************************************************)
(* Data model.                                                             *)
(***************************************************************************)
\* struct Person
Person(id, nickname, name, dob, stacks) ==
    [id |-> id, nickname |-> nickname, name |-> name, dob |-> dob, stacks |-> stacks]

\* struct CreatePersonPayload
CreatePersonPayload(nickname, name, dob, stacks) ==
    [nickname |-> nickname, name |-> name, dob |-> dob, stacks |-> stacks]

\* #[derive(Default)] values, used where a field of a record carries nothing.
DefaultPerson == Person(0, <<>>, <<>>, <<1, 1, 1>>, None)
DefaultPayload == CreatePersonPayload(<<>>, <<>>, <<1, 1, 1>>, None)

(***************************************************************************)
(* sqlx::Error, as far as the error mapping reads it: whether it is a      *)
(* database error (as_database_error), whether that error is a             *)
(* PgDatabaseError (try_downcast_ref), and its SQLSTATE code.              *)
(***************************************************************************)
SqlxError(kind, pg, code) == [kind |-> kind, pg |-> pg, code |-> code]
NoError == SqlxError("none", FALSE, "")
UniqueViolationError == SqlxError("Database", TRUE, "23505")
\* Failures of the store call that are not the uniqueness violation.
CreateFaults ==
    { SqlxError("Io", FALSE, ""),
      SqlxError("Database", TRUE, "57014"),
      SqlxError("Database", FALSE, "") }
ReadFaults == { SqlxError("Io", FALSE, ""), SqlxError("Database", TRUE, "57014") }

NoStore == [ok |-> FALSE, err |-> NoError]
StoreOk == [ok |-> TRUE, err |-> NoError]
StoreErr(e) == [ok |-> FALSE, err |-> e]

(***************************************************************************)
(* enum RepositoryError / enum AppError, and the Ok values of the          *)
(* repository operations, as one tagged record.                            *)
(***************************************************************************)
Result(kind) ==
    [kind |-> kind, person |-> DefaultPerson, persons |-> {}, count |-> 0,
     resoure_name |-> "", resource_id |-> 0, reason |-> "", body_text |-> ""]
NoResult == Result("none")
OkPerson(p) == [Result("Person") EXCEPT !.person = p]
OkPersons(ps) == [Result("Persons") EXCEPT !.persons = ps]
OkCount(n) == [Result("Count") EXCEPT !.count = n]
NotFound(name, id) == [Result("NotFound") EXCEPT !.resoure_name = name, !.resource_id = id]
Conflict(reason) == [Result("Conflict") EXCEPT !.reason = reason]
Unexpected == Result("Unexpected")
InvalidJsonRequest(text) == [Result("InvalidJsonRequest") EXCEPT !.body_text = text]

(***************************************************************************)
(* Error mapping of the repository.                                        *)
(***************************************************************************)
\* The uniqueness test reads only whether the error is a database error.
handle_create_error_any_db(err) ==
    IF err.kind = "Database"
    THEN Conflict("nickname already taken")
    ELSE Unexpected

\* The uniqueness violation is not told apart from the other failures.
handle_create_error_no_conflict(err) == Unexpected

\* fn handle_create_error(err: sqlx::Error) -> AppError
handle_create_error(err) ==
    IF err.kind = "Database" /\ err.pg /\ err.code = "23505"
    THEN Conflict("nickname already taken")
    ELSE Unexpected

\* fn handle_unexpected_error(_err: sqlx::Error) -> AppError
handle_unexpected_error(err) == Unexpected

(***************************************************************************)
(* HTTP rendering.                                                         *)
(***************************************************************************)
NOT_FOUND == 404
UNPROCESSABLE_ENTITY == 422
INTERNAL_SERVER_ERROR == 500
CREATED == 201
OK == 200

\* struct ErrorResponse
ErrorResponse(status, o_type, title, detail) ==
    [status |-> status, type |-> o_type, title |-> title, detail |-> detail]
NoErrorResponse == ErrorResponse(0, "", "", <<>>)

HttpResponse(status, isError, error) ==
    [status |-> status, isError |-> isError, error |-> error]
NoResponse == HttpResponse(0, FALSE, NoErrorResponse)

\* Conflict is rendered with 409 in the line and 422 in the body.
RepositoryErrorIntoResponse_409(e) ==
    CASE e.kind = "NotFound" ->
           HttpResponse(NOT_FOUND, TRUE,
               ErrorResponse(NOT_FOUND, "NotFound", "Resource not found",
                   <<"Resource '", e.resoure_name, "' with id ", e.resource_id, " not found">>))
      [] e.kind = "Conflict" ->
           HttpResponse(409, TRUE,
               ErrorResponse(UNPROCESSABLE_ENTITY, "Conflict", "Unprocessable entity",
                   <<"Conflict due to ", e.reason>>))
      [] e.kind = "Unexpected" ->
           HttpResponse(INTERNAL_SERVER_ERROR, TRUE,
               ErrorResponse(INTERNAL_SERVER_ERROR, "Unexpected", "Internal Server Error",
                   <<"Unexpected error">>))

\* impl IntoResponse for RepositoryError
RepositoryErrorIntoResponse(e) ==
    CASE e.kind = "NotFound" ->
           HttpResponse(NOT_FOUND, TRUE,
               ErrorResponse(NOT_FOUND, "NotFound", "Resource not found",
                   <<"Resource '", e.resoure_name, "' with id ", e.resource_id, " not found">>))
      [] e.kind = "Conflict" ->
           HttpResponse(UNPROCESSABLE_ENTITY, TRUE,
               ErrorResponse(UNPROCESSABLE_ENTITY, "Conflict", "Unprocessable entity",
                   <<"Conflict due to ", e.reason>>))
      [] e.kind = "Unexpected" ->
           HttpResponse(INTERNAL_SERVER_ERROR, TRUE,
               ErrorResponse(INTERNAL_SERVER_ERROR, "Unexpected", "Internal Server Error",
                   <<"Unexpected error">>))

\* impl IntoResponse for AppError
AppErrorIntoResponse(e) ==
    IF e.kind = "InvalidJsonRequest"
    THEN HttpResponse(UNPROCESSABLE_ENTITY, TRUE,
             ErrorResponse(UNPROCESSABLE_ENTITY, "UnprocessableEntity",
                 "Invalid request payload", <<e.body_text>>))
    ELSE RepositoryErrorIntoResponse(e)

IsOk(res) == res.kind \in {"Person", "Persons", "Count"}

\* The handlers' return values: Ok((StatusCode::CREATED, Json)) for
\* create_person, Ok(Json) or Ok(String) for the others, Err(AppError).
HandlerResponse(op, res) ==
    IF IsOk(res)
    THEN HttpResponse(IF op = "create_person" THEN CREATED ELSE OK, FALSE, NoErrorResponse)
    ELSE AppErrorIntoResponse(res)

(***************************************************************************)
(* The `person` table: id is assigned from a sequence, nickname is unique. *)
(***************************************************************************)
\* nextval of the id sequence; the first id is 1.
NextVal(s) == s + 1

\* The uniqueness constraint on nickname.
UniqueViolation(table, nickname) ==
    \E i \in 1..Len(table) : table[i].nickname = nickname

(***************************************************************************)
(* The statements of the repository.                                       *)
(***************************************************************************)
\* An empty list of stacks is bound as NULL.
InsertRow_empty_as_null(person, id) ==
    Person(id, person.nickname, person.name, person.dob,
           IF person.stacks = Some(<<>>) THEN None ELSE person.stacks)

\* INSERT INTO person (nickname, name, dob, stacks) VALUES ($1, $2, $3, $4)
\* with the four binds of create_person; the id is the store's.
InsertRow(person, id) ==
    Person(id, person.nickname, person.name, person.dob, person.stacks)

\* The new row takes the place of the last one.
InsertStmt_overwrite(table, row) ==
    IF table = <<>> THEN <<row>> ELSE [table EXCEPT ![Len(table)] = row]

\* INSERT adds one row to the table.
InsertStmt(table, row) == Append(table, row)

\* The inserted row is not read back: the Person keeps the default id.
Returning_default_id(row) == [row EXCEPT !.id = 0]

\* RETURNING * decoded by query_as into Person.
Returning(row) == row

\* SELECT * FROM person WHERE id = $1, fetch_optional.
SelectById(table, id) ==
    LET found == {i \in 1..Len(table) : table[i].id = id}
    IN  IF found = {} THEN None ELSE Some(table[CHOOSE i \in found : TRUE])

\* NotFound does not carry the id that was asked for.
GetPersonResult_default_id(found, id) ==
    IF found # None THEN OkPerson(found[1]) ELSE NotFound("person", 0)

\* The match on Ok(Some(person)) / Ok(None) of get_person.
GetPersonResult(found, id) ==
    IF found # None THEN OkPerson(found[1]) ELSE NotFound("person", id)

\* format!("%{term}%")
SearchPattern(term) == <<"%">> \o term \o <<"%">>

\* string LIKE pattern, with the default escape character (backslash):
\* % matches any run of characters, _ any one character, a backslash makes
\* the next pattern character literal, any other character matches itself.
\* A pattern that ends in a lone backslash is an error of the store; no
\* SearchPattern(term) is one, as it ends in "%" or in an escaped "%".
RECURSIVE Like(_, _)
Like(str, pat) ==
    IF pat = <<>> THEN str = <<>>
    ELSE IF pat[1] = "\\" THEN
        /\ Len(pat) >= 2
        /\ str # <<>>
        /\ str[1] = pat[2]
        /\ Like(Tail(str), Tail(Tail(pat)))
    ELSE IF pat[1] = "%" THEN
        \E k \in 0..Len(str) : Like(SubSeq(str, k + 1, Len(str)), Tail(pat))
    ELSE IF pat[1] = "_" THEN
        str # <<>> /\ Like(Tail(str), Tail(pat))
    ELSE
        str # <<>> /\ str[1] = pat[1] /\ Like(Tail(str), Tail(pat))

\* UNNEST(stacks): the elements of the array, none for NULL.
Unnest(stacks) ==
    IF stacks = None THEN {} ELSE {stacks[1][i] : i \in 1..Len(stacks[1])}

\* WHERE nickname LIKE $1 OR name LIKE $1
\*    OR EXISTS (SELECT 1 FROM UNNEST(stacks) s WHERE s LIKE $1)
SearchWhere(p, pattern) ==
    \/ Like(p.nickname, pattern)
    \/ Like(p.name, pattern)
    \/ \E s \in Unnest(p.stacks) : Like(s, pattern)

SearchLimit == 50

\* The sets of k elements of S.
RECURSIVE KSubsets(_, _)
KSubsets(S, k) ==
    IF k = 0 THEN {{}}
    ELSE UNION {{e \cup {x} : e \in KSubsets(S \ {x}, k - 1)} : x \in S}

\* The query has no LIMIT.
ApplyLimit_none(matching) == {matching}

\* LIMIT 50 without ORDER BY: any 50 of the matching rows when there are
\* more. The value is the set of the results the store may return.
ApplyLimit(matching) ==
    IF Cardinality(matching) <= SearchLimit
    THEN {matching}
    ELSE {matching \ e : e \in KSubsets(matching, Cardinality(matching) - SearchLimit)}

\* The rows the search statement matches.
SearchMatching(table, term) ==
    {table[i] : i \in {j \in 1..Len(table) : SearchWhere(table[j], SearchPattern(term))}}

\* COUNT(stacks): the rows whose stacks is not NULL.
CountQuery_non_null(table) ==
    Cardinality({i \in 1..Len(table) : table[i].stacks # None})

\* SELECT COUNT(*) FROM person
CountQuery(table) == Len(table)

(***************************************************************************)
(* Requests and responses.                                                 *)
(***************************************************************************)
Request(op, payload, id, term) ==
    [op |-> op, payload |-> payload, id |-> id, term |-> term]
NoRequest == Request("none", DefaultPayload, 0, <<>>)

\* A response: who asked what, how many statements the call sent to the
\* store, what the store answered, the handler's result and its rendering.
Response(c, req, queries, sres, res) ==
    [client |-> c, op |-> req.op, payload |-> req.payload, id |-> req.id,
     term |-> req.term, queries |-> queries, sres |-> sres, res |-> res,
     http |-> HandlerResponse(req.op, res)]

\* Before any handler has answered.
NoResponseYet ==
    [client |-> "c1", op |-> "none", payload |-> DefaultPayload, id |-> 0,
     term |-> <<>>, queries |-> 0, sres |-> NoStore, res |-> NoResult,
     http |-> NoResponse]

\* The body of POST /pessoas after the Json extractor.
JsonBody(payload) == [rejected |-> FALSE, payload |-> payload, body_text |-> ""]
JsonRejection(text) == [rejected |-> TRUE, payload |-> DefaultPayload, body_text |-> text]

(***************************************************************************)
(* Inputs.                                                                 *)
(***************************************************************************)
Go == <<"G", "o">>
Rust == <<"R", "u", "s", "t">>
Dob == <<2000, 1, 1>>

Payloads ==
    { CreatePersonPayload(<<"j", "o">>, <<"J">>, Dob, Some(<<Go, Rust>>)),
      CreatePersonPayload(<<"j", "o">>, <<"x", "%">>, Dob, None),
      CreatePersonPayload(<<"a", "\\", "b">>, <<"J">>, Dob, Some(<<>>)),
      CreatePersonPayload(<<>>, <<>>, Dob, None) }

Bodies ==
    {JsonBody(p) : p \in Payloads}
        \cup {JsonRejection("Failed to parse the request body as JSON")}

Ids == -1..MaxSeq

Terms == {<<>>, <<"o">>, <<"_">>, <<"%">>, <<"\\">>, Go, <<"g", "o">>}

\* SpecCap: the i-th person of a table filled by i successful creates.
DigitChar == <<"0", "1", "2", "3", "4", "5", "6", "7", "8", "9">>
BulkPayload(i) ==
    CreatePersonPayload(<<"p", DigitChar[(i \div 10) + 1], DigitChar[(i % 10) + 1]>>,
                        <<"J">>, Dob,
                        IF i % 2 = 0 THEN Some(<<Go>>) ELSE None)
Population(n) == [i \in 1..n |-> InsertRow(BulkPayload(i), i)]
CapTerms == {<<>>, <<"p", "5">>, Go, <<"z">>}

(***************************************************************************)
(* Initial states.                                                         *)
(***************************************************************************)
Init ==
    /\ rows = <<>>
    /\ seq = 0
    /\ call = [c \in Clients |-> NoRequest]
    /\ created = <<>>
    /\ response = NoResponseYet

\* A table that n successful creates of distinct nicknames have filled.
InitCap ==
    \E n \in 0..MaxPopulation :
        /\ rows = Population(n)
        /\ seq = n
        /\ call = [c \in Clients |-> NoRequest]
        /\ created = Population(n)
        /\ response = NoResponseYet

(***************************************************************************)
(* Handlers and repository operations.  A handler runs in two steps: it    *)
(* extracts its input and sends the statement (Call), and it gets the      *)
(* store's answer, maps it and renders the response (Return).  The store   *)
(* executes the statement in the Return step.                              *)
(***************************************************************************)
Send(c, req) ==
    /\ call[c].op = "none"
    /\ call' = [call EXCEPT ![c] = req]
    /\ response' = NoResponseYet

Reply(c, sres, res) ==
    /\ response' = Response(c, call[c], 1, sres, res)
    /\ call' = [call EXCEPT ![c] = NoRequest]

\* async fn create_person (handler): the body is extracted before the
\* repository is called; a rejection is rendered at once.
CreatePersonCall(c, body) ==
    /\ call[c].op = "none"
    /\ IF body.rejected
       THEN /\ response' = Response(c, Request("create_person", body.payload, 0, <<>>),
                                    0, NoStore, InvalidJsonRequest(body.body_text))
            /\ call' = call
       ELSE Send(c, Request("create_person", body.payload, 0, <<>>))
    /\ UNCHANGED <<rows, seq, created>>

\* PostgresPersonRepository::create_person: one INSERT ... RETURNING *,
\* fetch_one, map_err(handle_create_error).
CreatePersonReturn(c) ==
    /\ call[c].op = "create_person"
    /\ \E fault \in CreateFaults \cup {NoError} :
        LET person == call[c].payload
            row == InsertRow(person, NextVal(seq))
            sres == IF fault # NoError THEN StoreErr(fault)
                    ELSE IF UniqueViolation(rows, person.nickname)
                         THEN StoreErr(UniqueViolationError)
                         ELSE StoreOk
            res == IF sres.ok THEN OkPerson(Returning(row))
                   ELSE handle_create_error(sres.err)
        IN  /\ rows' = IF sres.ok THEN InsertStmt(rows, row) ELSE rows
            /\ seq' = IF fault = NoError THEN NextVal(seq) ELSE seq
            /\ created' = IF res.kind = "Person" THEN Append(created, res.person)
                          ELSE created
            /\ Reply(c, sres, res)

\* async fn get_person (handler)
GetPersonCall(c, id) ==
    /\ Send(c, Request("get_person", DefaultPayload, id, <<>>))
    /\ UNCHANGED <<rows, seq, created>>

\* PostgresPersonRepository::get_person
GetPersonReturn(c) ==
    /\ call[c].op = "get_person"
    /\ \E fault \in ReadFaults \cup {NoError} :
        LET sres == IF fault # NoError THEN StoreErr(fault) ELSE StoreOk
            res == IF sres.ok THEN GetPersonResult(SelectById(rows, call[c].id), call[c].id)
                   ELSE handle_unexpected_error(sres.err)
        IN  Reply(c, sres, res)
    /\ UNCHANGED <<rows, seq, created>>

\* async fn search_person (handler)
SearchPersonCall(c, term) ==
    /\ Send(c, Request("search_person", DefaultPayload, 0, term))
    /\ UNCHANGED <<rows, seq, created>>

\* PostgresPersonRepository::search_person
SearchPersonReturn(c) ==
    /\ call[c].op = "search_person"
    /\ \E fault \in ReadFaults \cup {NoError} :
        IF fault # NoError
        THEN Reply(c, StoreErr(fault), handle_unexpected_error(fault))
        ELSE \E fetched \in ApplyLimit(SearchMatching(rows, call[c].term)) :
                 Reply(c, StoreOk, OkPersons(fetched))
    /\ UNCHANGED <<rows, seq, created>>

\* async fn count_person (handler)
CountCall(c) ==
    /\ Send(c, Request("count", DefaultPayload, 0, <<>>))
    /\ UNCHANGED <<rows, seq, created>>

\* PostgresPersonRepository::count
CountReturn(c) ==
    /\ call[c].op = "count"
    /\ \E fault \in ReadFaults \cup {NoError} :
        LET sres == IF fault # NoError THEN StoreErr(fault) ELSE StoreOk
            res == IF sres.ok THEN OkCount(CountQuery(rows))
                   ELSE handle_unexpected_error(sres.err)
        IN  Reply(c, sres, res)
    /\ UNCHANGED <<rows, seq, created>>

(***************************************************************************)
(* Specifications.                                                         *)
(***************************************************************************)
\* The inserts waiting for the store; each may advance the id sequence.
PendingCreates == Cardinality({c \in Clients : call[c].op = "create_person"})

\* Spec: two clients, every request in any interleaving, from an empty table.
Next ==
    \E c \in Clients :
        \/ \E body \in Bodies :
               seq + PendingCreates < MaxSeq /\ CreatePersonCall(c, body)
        \/ CreatePersonReturn(c)
        \/ \E id \in Ids : GetPersonCall(c, id)
        \/ GetPersonReturn(c)
        \/ \E term \in Terms : SearchPersonCall(c, term)
        \/ SearchPersonReturn(c)
        \/ CountCall(c)
        \/ CountReturn(c)

Spec == Init /\ [][Next]_vars

\* SpecCap: one client on a table of up to MaxPopulation rows, around the
\* search limit.
CapBodies ==
    {JsonBody(BulkPayload(Len(rows) + 1)),
     JsonRejection("Failed to parse the request body as JSON")}

NextCap ==
    \/ \E body \in CapBodies :
           seq + PendingCreates < MaxPopulation /\ CreatePersonCall("c1", body)
    \/ CreatePersonReturn("c1")
    \/ \E id \in {0, 1, Len(rows), Len(rows) + 1} : GetPersonCall("c1", id)
    \/ GetPersonReturn("c1")
    \/ \E term \in CapTerms : SearchPersonCall("c1", term)
    \/ SearchPersonReturn("c1")
    \/ CountCall("c1")
    \/ CountReturn("c1")

SpecCap == InitCap /\ [][NextCap]_vars

(***************************************************************************)
(* Properties.                                                             *)
(*                                                                         *)
(* `response` holds the answer of the step just taken: in a state where it *)
(* holds one, rows and created are as the answered call left them.         *)
(***************************************************************************)
IdsOf(persons) == {persons[i].id : i \in 1..Len(persons)}
NicknamesOf(persons) == {persons[i].nickname : i \in 1..Len(persons)}

\* The store call of the response failed for a reason other than the
\* uniqueness violation.
StoreFailed == ~response.sres.ok /\ response.sres.err # UniqueViolationError

\* A repository call was answered.
Answered(op) == response.op = op /\ response.queries = 1

\* `sub` occurs in `str` as a literal substring, case-sensitive.
Contains(str, sub) ==
    \E k \in 0..(Len(str) - Len(sub)) : SubSeq(str, k + 1, k + Len(sub)) = sub

\* The term occurs literally in the nickname, the name or one of the stacks.
LiteralMatch(p, term) ==
    \/ Contains(p.nickname, term)
    \/ Contains(p.name, term)
    \/ \E st \in Unnest(p.stacks) : Contains(st, term)

\* C1: of the create calls that carry one nickname at most one returns a
\* Person; a create whose store call does not fail otherwise returns a
\* Person (then the only one of that nickname) or Conflict (then another
\* call returned the Person of that nickname); no two rows of the table
\* share a nickname; and a create is one statement.
C1_OneSuccessPerNickname ==
    /\ \A i, j \in 1..Len(rows) : rows[i].nickname = rows[j].nickname => i = j
    /\ \A i, j \in 1..Len(created) : created[i].nickname = created[j].nickname => i = j
    /\ (Answered("create_person") /\ ~StoreFailed) =>
          \/ /\ response.res.kind = "Person"
             /\ created # <<>>
             /\ created[Len(created)] = response.res.person
             /\ response.res.person.nickname = response.payload.nickname
          \/ /\ response.res.kind = "Conflict"
             /\ response.payload.nickname \in NicknamesOf(created)
    /\ response.op = "create_person" => response.queries <= 1

\* C1 witness: a create returned the Person of a nickname while another
\* create with the same nickname is waiting for the store.
C1_Witness ==
    /\ Answered("create_person")
    /\ response.res.kind = "Person"
    /\ \E c \in Clients :
          /\ c # response.client
          /\ call[c].op = "create_person"
          /\ call[c].payload.nickname = response.payload.nickname

\* C2 (as claimed): a search returns only Persons in which the term occurs
\* literally, and all of them when fewer than 50 do.
C2_LiteralSubstring ==
    (Answered("search_person") /\ response.sres.ok) =>
        LET literal == {rows[i] : i \in {j \in 1..Len(rows) :
                                            LiteralMatch(rows[j], response.term)}}
        IN  /\ \A p \in response.res.persons : LiteralMatch(p, response.term)
            /\ Cardinality(literal) < SearchLimit => literal \subseteq response.res.persons

\* C3: a count that the store answers returns the number of creates that
\* returned a Person; count never returns NotFound or Conflict.
C3_CountIsSuccessfulCreates ==
    Answered("count") =>
        /\ response.sres.ok => response.res = OkCount(Len(created))
        /\ response.res.kind \in {"Count", "Unexpected"}
        /\ response.res.kind = "Count" <=> response.sres.ok

\* C3 witness: a count of one or more, after a create that returned no
\* Person advanced the id sequence.
C3_Witness ==
    /\ Answered("count")
    /\ response.res.kind = "Count"
    /\ response.res.count >= 1
    /\ seq > Len(created)

\* C4: a create returns the submitted nickname, name, dob and stacks; a
\* later get of a created Person's id, when the store answers, returns
\* that Person.
C4_RoundTrip ==
    /\ (Answered("create_person") /\ response.res.kind = "Person") =>
          /\ response.res.person.nickname = response.payload.nickname
          /\ response.res.person.name = response.payload.name
          /\ response.res.person.dob = response.payload.dob
          /\ response.res.person.stacks = response.payload.stacks
    /\ (Answered("get_person") /\ response.sres.ok) =>
          \A i \in 1..Len(created) :
              created[i].id = response.id => response.res = OkPerson(created[i])

\* C4 witness: a get returned a Person created with an empty list of
\* stacks, after a later create.
C4_Witness ==
    /\ Answered("get_person")
    /\ response.res.kind = "Person"
    /\ response.res.person.stacks = Some(<<>>)
    /\ response.res.person.id < seq

\* C5: a get of an id that no create returned, when the store answers,
\* returns NotFound of "person" with that id, rendered as 404; a get never
\* returns Conflict.
C5_NotFoundCarriesId ==
    Answered("get_person") =>
        /\ (response.sres.ok /\ response.id \notin IdsOf(created)) =>
              /\ response.res = NotFound("person", response.id)
              /\ response.http.status = NOT_FOUND
        /\ response.res.kind # "Conflict"

\* C5 witness: NotFound for a negative id.
C5_Witness ==
    /\ Answered("get_person")
    /\ response.res.kind = "NotFound"
    /\ response.id < 0
    /\ created # <<>>

\* C6: a create whose store call does not fail and that returns no Person
\* carried a nickname the table holds; a returned Person has a positive id
\* that no earlier create returned; the ids of the created Persons are
\* pairwise different.
C6_FreshPositiveId ==
    /\ (Answered("create_person") /\ ~StoreFailed /\ response.res.kind # "Person") =>
          UniqueViolation(rows, response.payload.nickname)
    /\ (Answered("create_person") /\ response.res.kind = "Person") =>
          /\ response.res.person.id > 0
          /\ created # <<>>
          /\ created[Len(created)] = response.res.person
          /\ response.res.person.id \notin IdsOf(SubSeq(created, 1, Len(created) - 1))
    /\ \A i, j \in 1..Len(created) : created[i].id = created[j].id => i = j
    /\ \A i \in 1..Len(created) : created[i].id > 0

\* C6 witness: a create returned a Person after a create returned Conflict
\* between it and an earlier Person.
C6_Witness ==
    /\ Answered("create_person")
    /\ response.res.kind = "Person"
    /\ Len(created) = 2
    /\ response.res.person.id > created[1].id + 1

\* C7: a search that the store answers succeeds with at most 50 Persons,
\* an empty list included; a search for the empty term returns
\* min(50, number of rows) Persons.
C7_SearchCap ==
    Answered("search_person") =>
        /\ response.sres.ok <=> response.res.kind = "Persons"
        /\ response.sres.ok =>
              /\ Cardinality(response.res.persons) <= SearchLimit
              /\ response.http.status = OK
              /\ response.res.persons \subseteq {rows[i] : i \in 1..Len(rows)}
              /\ response.term = <<>> =>
                    Cardinality(response.res.persons) =
                        IF Len(rows) < SearchLimit THEN Len(rows) ELSE SearchLimit

\* C7 witness: the empty term on a table of more than 50 rows.
C7_Witness ==
    /\ Answered("search_person")
    /\ response.term = <<>>
    /\ Len(rows) > SearchLimit
    /\ Cardinality(response.res.persons) = SearchLimit

\* C8: create returns Conflict exactly when the store's error is a
\* PgDatabaseError with code 23505 and Unexpected for every other failure;
\* get, search and count return Unexpected for every failure; NotFound
\* comes only from a get that found no row; a call sends one statement.
C8_Classification ==
    LET err == response.sres.err
        unique == ~response.sres.ok /\ err.kind = "Database" /\ err.pg /\ err.code = "23505"
    IN  /\ response.queries <= 1
        /\ response.op \in {"get_person", "search_person", "count"} => response.queries = 1
        /\ response.queries = 1 =>
              /\ response.res.kind \in
                    {"Person", "Persons", "Count", "NotFound", "Conflict", "Unexpected"}
              /\ response.sres.ok \/ response.res.kind \in {"Conflict", "Unexpected"}
              /\ response.res.kind = "Conflict" <=> (response.op = "create_person" /\ unique)
              /\ (~response.sres.ok /\ ~(response.op = "create_person" /\ unique)) =>
                    response.res = Unexpected
              /\ response.res.kind = "NotFound" =>
                    /\ response.op = "get_person"
                    /\ response.sres.ok
                    /\ SelectById(rows, response.id) = None

\* C8 witness: a create failed with a database error of another code.
C8_Witness ==
    /\ Answered("create_person")
    /\ response.sres.err.kind = "Database"
    /\ response.sres.err.code # "23505"
    /\ response.res = Unexpected

C10_Step ==
    /\ \A i \in 1..Len(rows) : i <= Len(rows') /\ rows'[i] = rows[i]
    /\ rows' # rows =>
          /\ response'.op = "create_person"
          /\ response'.res.kind = "Person"
          /\ rows' = Append(rows, response'.res.person)

C10_Stored == \A i \in 1..Len(created) : \E j \in 1..Len(rows) : rows[j] = created[i]

C10_Permanent == [][C10_Step]_vars /\ []C10_Stored

\* C10 witness: two Persons are stored and a create has returned Conflict.
C10_Witness ==
    /\ Len(rows) = 2
    /\ Answered("create_person")
    /\ response.res.kind = "Conflict"

====
